---- MODULE Spec2Model ----
(***************************************************************************)
(* Model of mdh_analyzer/domain_analyzer.py: the three signal probes, the  *)
(* status reconciliation, the work unit analyze_domain and the two         *)
(* execution modes of the resolver (sequential loop, thread pool).         *)
(*                                                                         *)
(* The network is modelled by its outcomes: every call of                  *)
(* dns.resolver.resolve, session.head and whois.whois either returns a     *)
(* value or raises an exception of some class.  The analyzed_at timestamp  *)
(* of a record is left out: no property below reads it.                    *)
(***************************************************************************)
EXTENDS Integers, Sequences, FiniteSets, TLC

(* ------------------------------ bounds -------------------------------- *)
MaxDomains == 3
MaxWorkers == 2

(* ------------------------- strings and ordering ----------------------- *)
\* A string is a sequence of characters; Ord gives the code point that
\* Python's ordinal string comparison uses.
Chars == {" ", ".", "a", "b"}

Ord(c) == CASE c = " " -> 32
            [] c = "." -> 46
            [] c = "a" -> 97
            [] c = "b" -> 98

RECURSIVE StrLess(_, _)
\* s < t for Python str: lexicographic by code point, a proper prefix is less.
StrLess(s, t) ==
    IF t = <<>> THEN FALSE
    ELSE IF s = <<>> THEN TRUE
    ELSE IF Ord(Head(s)) < Ord(Head(t)) THEN TRUE
    ELSE IF Ord(Head(s)) > Ord(Head(t)) THEN FALSE
    ELSE StrLess(Tail(s), Tail(t))

RECURSIVE RStripDot(_)
\* str.rstrip("."): drop every trailing dot.
RStripDot(s) ==
    IF s # <<>> /\ s[Len(s)] = "." THEN RStripDot(SubSeq(s, 1, Len(s) - 1))
    ELSE s

\* Optional values: None, or Some(x).
None == <<>>
Some(x) == <<x>>

(* --------------------------- exception classes ------------------------ *)
ExceptionClasses ==
    {"NXDOMAIN", "NoAnswer", "dns.Timeout", "NoNameservers", "DNSException",
     "SSLError", "requests.Timeout", "ConnectionError", "RequestException",
     "OSError", "ValueError", "TypeError", "WhoisDomainNotFoundError",
     "RuntimeError", "FileNotFoundError", "PermissionError",
     "JSONDecodeError", "UnicodeDecodeError", "KeyError", "AttributeError",
     "Exception"}

\* The direct base class of each exception class.
BaseOf(e) == CASE e \in {"NXDOMAIN", "NoAnswer", "dns.Timeout", "NoNameservers"}
                      -> "DNSException"
               [] e = "SSLError" -> "ConnectionError"
               [] e \in {"requests.Timeout", "ConnectionError"} -> "RequestException"
               [] e = "RequestException" -> "OSError"
               [] e \in {"FileNotFoundError", "PermissionError"} -> "OSError"
               [] e \in {"JSONDecodeError", "UnicodeDecodeError"} -> "ValueError"
               [] OTHER -> "Exception"

RECURSIVE IsInstance(_, _)
\* isinstance(e, cls), which is what an except clause tests.
IsInstance(e, cls) ==
    IF e = cls THEN TRUE
    ELSE IF e = "Exception" THEN FALSE
    ELSE IsInstance(BaseOf(e), cls)

IsAnyOf(e, classes) == \E c \in classes : IsInstance(e, c)

\* The outcome of a call: it returns a value or raises.
Return(v) == [kind |-> "return", val |-> v]
Raise(e) == [kind |-> "raise", exc |-> e]

(* ------------------------------ DNS probe ----------------------------- *)
DnsStatuses == {"NOERROR", "NXDOMAIN", "TIMEOUT", "SERVFAIL", "ERROR"}

\* _get_cname_record: the first answer without its trailing dots, None when
\* the lookup fails with a DNS exception; any other exception is not caught.
get_cname_record(n) ==
    IF n.cname.kind = "return"
    THEN IF n.cname.val # <<>>
         THEN Return(Some(RStripDot(n.cname.val[1])))
         ELSE Return(None)
    ELSE IF IsAnyOf(n.cname.exc, {"NXDOMAIN", "NoAnswer", "dns.Timeout",
                                  "NoNameservers", "DNSException"})
         THEN Return(None)
         ELSE Raise(n.cname.exc)

\* check_dns_status: (status, cname).  The CNAME lookup runs inside the
\* NXDOMAIN handler, so what it raises is not seen by the later handlers.
check_dns_status(n) ==
    IF n.a.kind = "return" THEN Return([status |-> "NOERROR", cname |-> None])
    ELSE IF IsInstance(n.a.exc, "NXDOMAIN")
         THEN LET c == get_cname_record(n)
              IN  IF c.kind = "raise" THEN c
                  ELSE Return([status |-> "NXDOMAIN", cname |-> c.val])
    ELSE IF IsInstance(n.a.exc, "NoAnswer")
         THEN Return([status |-> "NOERROR", cname |-> None])
    ELSE IF IsInstance(n.a.exc, "dns.Timeout")
         THEN Return([status |-> "TIMEOUT", cname |-> None])
    ELSE IF IsInstance(n.a.exc, "NoNameservers")
         THEN Return([status |-> "SERVFAIL", cname |-> None])
    ELSE Return([status |-> "ERROR", cname |-> None])

\* The lookups check_dns_status makes, in order.
dns_lookups(n) ==
    IF n.a.kind = "raise" /\ IsInstance(n.a.exc, "NXDOMAIN")
    THEN <<"A", "CNAME">> ELSE <<"A">>

(* ------------------------------ HTTP probe ---------------------------- *)
HttpCaught == {"SSLError", "RequestException", "OSError", "ValueError"}

\* The loop over ["https", "http"] with an SSL error on https ending the
\* probe with 0 at once, as it does on http.
head_requests_no_ssl_fallback(n) ==
    IF n.https.kind = "return"
    THEN [requests |-> <<"https">>, outcome |-> Return(n.https.val)]
    ELSE IF ~IsAnyOf(n.https.exc, HttpCaught)
    THEN [requests |-> <<"https">>, outcome |-> Raise(n.https.exc)]
    ELSE IF IsInstance(n.https.exc, "SSLError")
    THEN [requests |-> <<"https">>, outcome |-> Return(0)]
    ELSE IF n.http.kind = "return"
    THEN [requests |-> <<"https", "http">>, outcome |-> Return(n.http.val)]
    ELSE IF ~IsAnyOf(n.http.exc, HttpCaught)
    THEN [requests |-> <<"https", "http">>, outcome |-> Raise(n.http.exc)]
    ELSE [requests |-> <<"https", "http">>, outcome |-> Return(0)]

\* The loop over ["https", "http"], lines 142-166: the HEAD requests it
\* makes, in order, and how it ends.  A response ends it with the status
\* code; a caught exception moves on from https to http, or ends with 0 on
\* http; any other exception leaves the probe.
head_requests(n) ==
    IF n.https.kind = "return"
    THEN [requests |-> <<"https">>, outcome |-> Return(n.https.val)]
    ELSE IF ~IsAnyOf(n.https.exc, HttpCaught)
    THEN [requests |-> <<"https">>, outcome |-> Raise(n.https.exc)]
    ELSE IF n.http.kind = "return"
    THEN [requests |-> <<"https", "http">>, outcome |-> Return(n.http.val)]
    ELSE IF ~IsAnyOf(n.http.exc, HttpCaught)
    THEN [requests |-> <<"https", "http">>, outcome |-> Raise(n.http.exc)]
    ELSE [requests |-> <<"https", "http">>, outcome |-> Return(0)]

\* check_http_status: 0 for an empty domain, else what the loop gives.
check_http_status(domain, n) ==
    IF domain = <<>> THEN Return(0) ELSE head_requests(n).outcome

\* The HEAD requests check_http_status makes, in order.
http_requests(domain, n) ==
    IF domain = <<>> THEN <<>> ELSE head_requests(n).requests

(* ------------------------------ WHOIS probe --------------------------- *)
WhoisStatuses == {"registered", "available", "unknown"}

\* A field of a WHOIS record: None, a single value, or a list of values.
NoneField == [isList |-> FALSE, items |-> <<>>]
Single(x) == [isList |-> FALSE, items |-> <<x>>]
ListOf(xs) == [isList |-> TRUE, items |-> xs]
IsNone(f) == ~f.isList /\ f.items = <<>>
Truthy(f) == f.items # <<>>

\* datetime.isoformat(): a date becomes its ISO string.
IsoFormat(d) == <<"iso", d>>

\* The "first value" rule for a date field; None when nothing is kept.
FirstDate(f) == IF Truthy(f) THEN Some(IsoFormat(f.items[1])) ELSE None

\* str.lower() on the server names that occur.
Lower(ns) == CASE ns = "NS1" -> "ns1"
               [] ns = "NS2" -> "ns2"
               [] OTHER -> ns

\* The lowercase list of the servers of a list, or of the single server.
Nameservers(f) ==
    IF ~Truthy(f) THEN None
    ELSE Some([i \in 1..Len(f.items) |-> Lower(f.items[i])])

EmptyDict == [k \in {} |-> None]

Entry(key, opt) == IF opt = None THEN EmptyDict ELSE (key :> opt[1])

\* whois_details as built from the record w.
whois_details(w) ==
    Entry("registered_at", FirstDate(w.creation_date))
    @@ Entry("expiry_date", FirstDate(w.expiration_date))
    @@ Entry("last_updated", FirstDate(w.updated_date))
    @@ Entry("nameservers", Nameservers(w.name_servers))

\* The whois.whois calls check_whois_status makes: none for an empty domain.
whois_lookups(domain) == IF domain = <<>> THEN <<>> ELSE <<"whois">>

\* The same classification with "and" for "or": registered only when the
\* status and the creation date are both there.
check_whois_status_both_needed(domain, n) ==
    IF domain = <<>> THEN Return([status |-> "unknown", details |-> EmptyDict])
    ELSE IF n.whois.kind = "return"
         THEN LET w == n.whois.val
              IN  IF ~w.status_is_none /\ ~IsNone(w.creation_date)
                  THEN Return([status |-> "registered",
                               details |-> whois_details(w)])
                  ELSE Return([status |-> "available",
                               details |-> whois_details(w)])
    ELSE IF IsInstance(n.whois.exc, "WhoisDomainNotFoundError")
         THEN Return([status |-> "available", details |-> EmptyDict])
         ELSE Return([status |-> "unknown", details |-> EmptyDict])

\* check_whois_status, lines 168-230
check_whois_status(domain, n) ==
    IF domain = <<>> THEN Return([status |-> "unknown", details |-> EmptyDict])
    ELSE IF n.whois.kind = "return"
         THEN LET w == n.whois.val
              IN  IF ~w.status_is_none \/ ~IsNone(w.creation_date)
                  THEN Return([status |-> "registered",
                               details |-> whois_details(w)])
                  ELSE Return([status |-> "available",
                               details |-> whois_details(w)])
    ELSE IF IsInstance(n.whois.exc, "WhoisDomainNotFoundError")
         THEN Return([status |-> "available", details |-> EmptyDict])
         ELSE Return([status |-> "unknown", details |-> EmptyDict])

(* ---------------------------- reconciliation -------------------------- *)
\* The same decision with the NOERROR shortcut dropped: WHOIS always decides.
determine_availability_status_whois_first(dns_status, whois_status) ==
    whois_status

\* The same decision with the NXDOMAIN case falling through to WHOIS.
determine_availability_status_no_nxdomain_case(dns_status, whois_status) ==
    IF dns_status = "NOERROR" THEN "registered" ELSE whois_status

\* _determine_availability_status
determine_availability_status(dns_status, whois_status) ==
    IF dns_status = "NOERROR" THEN "registered"
    ELSE IF dns_status = "NXDOMAIN"
         THEN IF whois_status = "registered" THEN "registered"
              ELSE IF whois_status = "available" THEN "available"
              ELSE "unknown"
    ELSE whois_status

(* ------------------------------ work unit ----------------------------- *)
\* The result dict with the WHOIS probe's own status stored in it.
build_result_raw_whois(domain, dns, http_status, whois) ==
    [domain |-> domain,
     dns_status |-> dns.status,
     http_status |-> http_status,
     whois_status |-> whois.status]
    @@ (IF dns.cname # None /\ dns.cname[1] # <<>>
        THEN ("cname_record" :> dns.cname[1]) ELSE EmptyDict)
    @@ whois.details

\* The result dict of analyze_domain, built from the probes' values.
build_result(domain, dns, http_status, whois) ==
    [domain |-> domain,
     dns_status |-> dns.status,
     http_status |-> http_status,
     whois_status |-> determine_availability_status(dns.status, whois.status)]
    @@ (IF dns.cname # None /\ dns.cname[1] # <<>>
        THEN ("cname_record" :> dns.cname[1]) ELSE EmptyDict)
    @@ whois.details

\* analyze_domain: DNS, then HTTP, then WHOIS; the first exception a probe
\* lets through ends the unit.
analyze_domain(domain, n) ==
    LET dns == check_dns_status(n)
    IN  IF dns.kind = "raise" THEN dns
        ELSE LET http == check_http_status(domain, n)
             IN  IF http.kind = "raise" THEN http
                 ELSE LET whois == check_whois_status(domain, n)
                      IN  IF whois.kind = "raise" THEN whois
                          ELSE Return(build_result(domain, dns.val, http.val,
                                                   whois.val))

(* ----------------------- outcomes of the network ---------------------- *)
\* The outcome of a call the run never makes.
NotCalled == [kind |-> "not called"]

DnsAOutcomes ==
    {Return("A")} \cup
    {Raise(e) : e \in {"NXDOMAIN", "NoAnswer", "dns.Timeout", "NoNameservers",
                       "DNSException", "OSError", "RuntimeError"}}

CnameOutcomes ==
    {Return(<<>>), Return(<< <<"b">> >>), Return(<< <<"b", ".">> >>),
     Return(<< <<".">> >>)} \cup
    {Raise(e) : e \in {"NXDOMAIN", "NoAnswer", "dns.Timeout", "NoNameservers",
                       "DNSException", "OSError", "RuntimeError"}}

HeadOutcomes ==
    {Return(200), Return(301), Return(404), Return(503), Return(999)} \cup
    {Raise(e) : e \in {"SSLError", "requests.Timeout", "ConnectionError",
                       "OSError", "ValueError", "TypeError", "RuntimeError"}}

WhoisRecords ==
    [status_is_none : BOOLEAN,
     creation_date : {NoneField, Single("d1"), ListOf(<<"d1", "d2">>), ListOf(<<>>)},
     expiration_date : {NoneField, Single("d3")},
     updated_date : {NoneField, ListOf(<<"d4">>)},
     name_servers : {NoneField, ListOf(<<"NS1", "ns2">>)}]

WhoisOutcomes ==
    {Return(w) : w \in WhoisRecords} \cup
    {Raise(e) : e \in {"WhoisDomainNotFoundError", "OSError", "RuntimeError"}}

\* Every combination of outcomes of the calls one work unit can make; a
\* call the unit does not reach has no outcome.
NetOutcomes ==
    {n \in [a : DnsAOutcomes, cname : CnameOutcomes \cup {NotCalled},
            https : HeadOutcomes, http : HeadOutcomes \cup {NotCalled},
            whois : WhoisOutcomes] :
        /\ (n.cname = NotCalled) <=> (Len(dns_lookups(n)) = 1)
        /\ (n.http = NotCalled) <=>
               (n.https.kind = "return" \/ ~IsAnyOf(n.https.exc, HttpCaught))}

(* ------------------------- resolver: pure parts ----------------------- *)
\* Domain names the input file can hold, in no particular order.
NamePool == << <<"b">>, <<"a", ".", "b">>, <<"a">>, <<"a", "b">>,
               <<"b", ".", "a">> >>

DomainNames == {NamePool[i] : i \in 1..MaxDomains}

\* The least string of a non-empty set.
MinStr(S) == CHOOSE x \in S : \A y \in S : ~StrLess(y, x)

RECURSIVE Sorted(_)
\* sorted(list(domains)), line 70: the list the resolver is given.
Sorted(S) ==
    IF S = {} THEN <<>>
    ELSE LET m == MinStr(S) IN <<m>> \o Sorted(S \ {m})

RECURSIVE InsertByDomain(_, _)
\* r put behind every record whose domain is not greater (a stable sort).
InsertByDomain(rs, r) ==
    IF rs = <<>> THEN <<r>>
    ELSE IF StrLess(r.domain, Head(rs).domain) THEN <<r>> \o rs
    ELSE <<Head(rs)>> \o InsertByDomain(Tail(rs), r)

RECURSIVE InsertionSort(_, _)
InsertionSort(done, rest) ==
    IF rest = <<>> THEN done
    ELSE InsertionSort(InsertByDomain(done, Head(rest)), Tail(rest))

\* The list left as it is: the sort forgotten.
sort_by_domain_missing(rs) == rs

\* results.sort(key=lambda x: x["domain"]), line 394
sort_by_domain(rs) == InsertionSort(<<>>, rs)

\* The exception classes the collecting loop handles, lines 363-364.
CollectCaught == {"RequestException", "DNSException", "OSError", "ValueError",
                  "TypeError"}

\* The synthetic record of lines 368-375.
error_result(domain, exc) ==
    [domain |-> domain, dns_status |-> "ERROR", http_status |-> 0,
     whois_status |-> "unknown", error |-> exc]

\* (count * 100) // total_domains, lines 330 and 379
progress_percent(count, total_domains) == (count * 100) \div total_domains

\* Whether the sequential loop logs progress after unit i, line 331.
seq_reports_progress(i, total) ==
    i = 1 \/ progress_percent(i, total) % 10 = 0 \/ i = total

\* Whether the threaded loop logs progress after the count-th completed
\* unit, lines 381-383.
thr_reports_progress(count, total, last) ==
    /\ progress_percent(count, total) > last
    /\ (progress_percent(count, total) % 10 = 0 \/ count = total)

\* The class of an HTTP status with every status outside 200..599 counted
\* as unreachable.
http_key_no_other(http_status) ==
    IF 200 <= http_status /\ http_status < 300 THEN "success"
    ELSE IF 300 <= http_status /\ http_status < 400 THEN "redirect"
    ELSE IF 400 <= http_status /\ http_status < 500 THEN "client_error"
    ELSE IF 500 <= http_status /\ http_status < 600 THEN "server_error"
    ELSE "unreachable"

\* The class of an HTTP status in the summary, lines 436-447.
http_key(http_status) ==
    IF http_status = 0 THEN "unreachable"
    ELSE IF 200 <= http_status /\ http_status < 300 THEN "success"
    ELSE IF 300 <= http_status /\ http_status < 400 THEN "redirect"
    ELSE IF 400 <= http_status /\ http_status < 500 THEN "client_error"
    ELSE IF 500 <= http_status /\ http_status < 600 THEN "server_error"
    ELSE "other"

\* A histogram that records each key that occurs once, however often it
\* occurs.
Histogram_presence(keys) ==
    [k \in {keys[i] : i \in 1..Len(keys)} |-> 1]

\* A histogram: how many elements of keys equal each key that occurs.
Histogram(keys) ==
    [k \in {keys[i] : i \in 1..Len(keys)} |->
        Cardinality({i \in 1..Len(keys) : keys[i] = k})]

\* _generate_summary
generate_summary(results) ==
    IF results = <<>> THEN EmptyDict
    ELSE [dns_status_distribution |->
              Histogram([i \in 1..Len(results) |-> results[i].dns_status]),
          http_status_distribution |->
              Histogram([i \in 1..Len(results) |-> http_key(results[i].http_status)]),
          whois_status_distribution |->
              Histogram([i \in 1..Len(results) |-> results[i].whois_status])]

\* A report whose domains list is put in order of domain name.
domain_report_sorted(results) ==
    [metadata |-> [total_domains |-> Len(results)],
     summary |-> generate_summary(results),
     domains |-> sort_by_domain(results)]

\* The report save_domain_report writes, lines 405-413 (no timestamp).
domain_report(results) ==
    [metadata |-> [total_domains |-> Len(results)],
     summary |-> generate_summary(results),
     domains |-> results]

\* The outcomes of the network a domain of a batch can meet: a live domain,
\* a parked one without DNS, one whose CNAME lookup fails with an OSError,
\* and one whose HTTPS request fails with a RuntimeError.
ScLive ==
    [a |-> Return("A"), cname |-> NotCalled, https |-> Return(200),
     http |-> NotCalled,
     whois |-> Return([status_is_none |-> FALSE,
                       creation_date |-> ListOf(<<"d1", "d2">>),
                       expiration_date |-> Single("d3"),
                       updated_date |-> NoneField,
                       name_servers |-> ListOf(<<"NS1", "ns2">>)])]

ScParked ==
    [a |-> Raise("NXDOMAIN"), cname |-> Return(<< <<"b", ".">> >>),
     https |-> Raise("ConnectionError"), http |-> Raise("requests.Timeout"),
     whois |-> Raise("WhoisDomainNotFoundError")]

ScCnameOSError ==
    [a |-> Raise("NXDOMAIN"), cname |-> Raise("OSError"),
     https |-> Return(404), http |-> NotCalled, whois |-> Raise("OSError")]

ScHeadRuntimeError ==
    [a |-> Raise("dns.Timeout"), cname |-> NotCalled,
     https |-> Raise("RuntimeError"), http |-> NotCalled,
     whois |-> Raise("RuntimeError")]

UnitScenarios == {ScLive, ScParked, ScCnameOSError, ScHeadRuntimeError}

(***************************************************************************)
(* State.  Three groups: one work unit stepping through its probes, the    *)
(* reconciliation applied to a pair of statuses, and the resolver running  *)
(* one domain list in each of its two execution modes, each run followed   *)
(* by the command line's saving of the report.                             *)
(***************************************************************************)
VARIABLES
    unit_pc,        \* where analyze_domain stands
    unit_domain,    \* its domain argument
    unit_net,       \* what the network will answer for that domain
    dns_result,     \* (dns_status, cname_record), line 246
    http_result,    \* http_status, line 247
    whois_result,   \* (whois_status, whois_details), line 248
    unit_result,    \* the returned dict, or the exception that escaped
    calls,          \* the probes invoked so far, in order
    net_calls,      \* the lookups and requests made so far, in order
    rc_pc,          \* reconciliation: "input" or "done"
    rc_dns,         \* its dns_status argument
    rc_whois,       \* its whois_status argument
    rc_out,         \* its return value
    domains,        \* the list extract_domains_from_json returned
    net,            \* per domain, what the network will answer
    max_workers,    \* self.max_workers
    seq_phase,      \* sequential run: running, returned, raised, saved, exit1
    seq_i,          \* i of the loop: domains analysed so far
    seq_results,    \* results of the sequential run
    seq_progress,   \* the percentages it has logged
    seq_report,     \* the report saved after it, if any
    seq_probing,    \* the positions of the domains analyze_domain is running on
    thr_phase,      \* threaded run: running, unwinding, returned, raised, ...
    futures,        \* per submitted task: pending, running or finished
    collected,      \* the tasks as_completed has yielded, in that order
    thr_results,    \* results of the threaded run
    completed_count,
    last_reported_percent,
    thr_progress,   \* the percentages it has logged
    thr_report,     \* the report saved after it, if any
    \* the progress reports of one run, taken alone
    pg_mode,        \* sequential or threaded
    pg_total,       \* total_domains
    pg_count,       \* units of work finished so far
    pg_last,        \* last_reported_percent
    pg_log,         \* the reports logged: the unit and the percentage
    \* one report built from a result list
    sm_pc,
    sm_results,
    sm_report,
    \* the command line's analyze-domains on one input file
    cli_pc,         \* start, checked, extracted, analysed, exited
    cli_file,       \* what is at the input path
    cli_threading,  \* use_threading
    cli_domains,    \* what extract_domains_from_json gave
    cli_probed,     \* the domains analyze_domain was called on
    cli_results,    \* what the resolver gave
    cli_report,     \* the report file written, if any
    cli_exit,       \* how the command ended: "ok", "error", or not yet
    \* MillionDollarAnalyzer._process_areas on one list of areas
    px_pc,
    px_areas,       \* the raw areas
    px_domains,     \* the processed domain entries
    \* MarkdownReportGenerator._analyze_domains_by_status on one analysis
    cat_pc,
    cat_domains,    \* the domain records of the analysis
    cat_pixels,     \* domain_pixels: domain -> pixel count
    categorized     \* category -> the records put into it

unit_vars == <<unit_pc, unit_domain, unit_net, dns_result, http_result,
               whois_result, unit_result, calls, net_calls>>
rc_vars == <<rc_pc, rc_dns, rc_whois, rc_out>>
in_vars == <<domains, net, max_workers>>
seq_vars == <<seq_phase, seq_i, seq_results, seq_progress, seq_report,
              seq_probing>>
thr_vars == <<thr_phase, futures, collected, thr_results, completed_count,
              last_reported_percent, thr_progress, thr_report>>
res_vars == <<in_vars, seq_vars, thr_vars>>
pg_vars == <<pg_mode, pg_total, pg_count, pg_last, pg_log>>
sm_vars == <<sm_pc, sm_results, sm_report>>
cli_vars == <<cli_pc, cli_file, cli_threading, cli_domains, cli_probed,
              cli_results, cli_report, cli_exit>>
px_vars == <<px_pc, px_areas, px_domains>>
cat_vars == <<cat_pc, cat_domains, cat_pixels, categorized>>
ext_vars == <<cli_vars, px_vars, cat_vars>>
aux_vars == <<pg_vars, sm_vars, ext_vars>>
vars == <<unit_vars, rc_vars, res_vars, aux_vars>>

NotYet == [kind |-> "not yet"]

UnitIdle ==
    /\ unit_pc = "idle"
    /\ unit_domain = <<>>
    /\ unit_net = NotCalled
    /\ dns_result = NotYet
    /\ http_result = NotYet
    /\ whois_result = NotYet
    /\ unit_result = NotYet
    /\ calls = <<>>
    /\ net_calls = <<>>

RcIdle ==
    /\ rc_pc = "idle"
    /\ rc_dns = ""
    /\ rc_whois = ""
    /\ rc_out = ""

ProgressIdle ==
    /\ pg_mode = "idle"
    /\ pg_total = 0
    /\ pg_count = 0
    /\ pg_last = -1
    /\ pg_log = <<>>

SummaryIdle ==
    /\ sm_pc = "idle"
    /\ sm_results = <<>>
    /\ sm_report = None

CliIdle ==
    /\ cli_pc = "idle"
    /\ cli_file = NotYet
    /\ cli_threading = FALSE
    /\ cli_domains = NotYet
    /\ cli_probed = <<>>
    /\ cli_results = NotYet
    /\ cli_report = None
    /\ cli_exit = NotYet

PixelsIdle ==
    /\ px_pc = "idle"
    /\ px_areas = <<>>
    /\ px_domains = NotYet

CategoriesIdle ==
    /\ cat_pc = "idle"
    /\ cat_domains = <<>>
    /\ cat_pixels = EmptyDict
    /\ categorized = NotYet

ExtIdle == CliIdle /\ PixelsIdle /\ CategoriesIdle

ResolverIdle ==
    /\ domains = <<>>
    /\ net = EmptyDict
    /\ max_workers = 1
    /\ seq_phase = "idle"
    /\ seq_i = 0
    /\ seq_results = <<>>
    /\ seq_progress = <<>>
    /\ seq_report = None
    /\ seq_probing = {}
    /\ thr_phase = "idle"
    /\ futures = <<>>
    /\ collected = <<>>
    /\ thr_results = <<>>
    /\ completed_count = 0
    /\ last_reported_percent = -1
    /\ thr_progress = <<>>
    /\ thr_report = None

(* --------------------- analyze_domain, step by step ------------------- *)
InitUnit ==
    /\ unit_pc = "start"
    /\ unit_domain \in {<<>>, <<"a">>}
    /\ unit_net \in NetOutcomes
    /\ dns_result = NotYet
    /\ http_result = NotYet
    /\ whois_result = NotYet
    /\ unit_result = NotYet
    /\ calls = <<>>
    /\ net_calls = <<>>
    /\ RcIdle
    /\ ResolverIdle
    /\ ProgressIdle
    /\ SummaryIdle
    /\ ExtIdle

\* line 246
CallDns ==
    /\ unit_pc = "start"
    /\ dns_result' = check_dns_status(unit_net)
    /\ calls' = Append(calls, "check_dns_status")
    /\ net_calls' = net_calls \o dns_lookups(unit_net)
    /\ IF dns_result'.kind = "raise"
       THEN unit_pc' = "raised" /\ unit_result' = dns_result'
       ELSE unit_pc' = "dns_done" /\ UNCHANGED unit_result
    /\ UNCHANGED <<unit_domain, unit_net, http_result, whois_result, rc_vars, res_vars,
                   aux_vars>>

\* line 247
CallHttp ==
    /\ unit_pc = "dns_done"
    /\ http_result' = check_http_status(unit_domain, unit_net)
    /\ calls' = Append(calls, "check_http_status")
    /\ net_calls' = net_calls \o http_requests(unit_domain, unit_net)
    /\ IF http_result'.kind = "raise"
       THEN unit_pc' = "raised" /\ unit_result' = http_result'
       ELSE unit_pc' = "http_done" /\ UNCHANGED unit_result
    /\ UNCHANGED <<unit_domain, unit_net, dns_result, whois_result, rc_vars, res_vars,
                   aux_vars>>

\* line 248
CallWhois ==
    /\ unit_pc = "http_done"
    /\ whois_result' = check_whois_status(unit_domain, unit_net)
    /\ calls' = Append(calls, "check_whois_status")
    /\ net_calls' = net_calls \o whois_lookups(unit_domain)
    /\ IF whois_result'.kind = "raise"
       THEN unit_pc' = "raised" /\ unit_result' = whois_result'
       ELSE unit_pc' = "whois_done" /\ UNCHANGED unit_result
    /\ UNCHANGED <<unit_domain, unit_net, dns_result, http_result, rc_vars, res_vars,
                   aux_vars>>

\* lines 251-269
BuildResult ==
    /\ unit_pc = "whois_done"
    /\ unit_result' = Return(build_result(unit_domain, dns_result.val,
                                          http_result.val, whois_result.val))
    /\ unit_pc' = "returned"
    /\ UNCHANGED <<unit_domain, unit_net, dns_result, http_result,
                   whois_result, calls, net_calls, rc_vars, res_vars,
                   aux_vars>>

NextUnit == CallDns \/ CallHttp \/ CallWhois \/ BuildResult

SpecUnit == InitUnit /\ [][NextUnit]_vars

(* ----------------- reconciliation as a function of its inputs --------- *)
DnsInputs == DnsStatuses \cup {"REFUSED", "FORMERR", "noerror"}
WhoisInputs == WhoisStatuses \cup {"", "error", "taken", "REGISTERED"}

InitReconcile ==
    /\ rc_pc = "input"
    /\ rc_dns \in DnsInputs
    /\ rc_whois \in WhoisInputs
    /\ rc_out = ""
    /\ UnitIdle
    /\ ResolverIdle
    /\ ProgressIdle
    /\ SummaryIdle
    /\ ExtIdle

Reconcile ==
    /\ rc_pc = "input"
    /\ rc_out' = determine_availability_status(rc_dns, rc_whois)
    /\ rc_pc' = "done"
    /\ UNCHANGED <<rc_dns, rc_whois, unit_vars, res_vars,
                   aux_vars>>

NextReconcile == Reconcile

SpecReconcile == InitReconcile /\ [][NextReconcile]_vars

(* ------------------------------ the resolver -------------------------- *)
\* Both execution modes are run on one domain list and one assignment of
\* network outcomes, each with its own results and its own report.
Init ==
    /\ \E S \in SUBSET DomainNames : domains = Sorted(S)
    /\ net \in [{domains[k] : k \in 1..Len(domains)} -> UnitScenarios]
    /\ max_workers \in 1..MaxWorkers
    /\ seq_phase = "running"
    /\ seq_i = 0
    /\ seq_results = <<>>
    /\ seq_progress = <<>>
    /\ seq_report = None
    /\ seq_probing = {}
    /\ thr_phase = "running"
    /\ futures = [k \in 1..Len(domains) |-> "pending"]
    /\ collected = <<>>
    /\ thr_results = <<>>
    /\ completed_count = 0
    /\ last_reported_percent = -1
    /\ thr_progress = <<>>
    /\ thr_report = None
    /\ UnitIdle
    /\ RcIdle
    /\ ProgressIdle
    /\ SummaryIdle
    /\ ExtIdle

total_domains == Len(domains)

\* Every task running analyze_domain on the last domain of the list.
future_result_last_domain(k) ==
    analyze_domain(domains[Len(domains)], net[domains[Len(domains)]])

\* What future.result() gives for the k-th submitted task: the outcome of
\* analyze_domain on the k-th domain, lines 353 and 361.
future_result(k) == analyze_domain(domains[k], net[domains[k]])

\* The loop of _analyze_domains_sequential takes the next domain and calls
\* analyze_domain on it, lines 325-326.
SeqBegin ==
    /\ seq_phase = "running"
    /\ seq_i < total_domains
    /\ seq_probing = {}
    /\ seq_probing' = {seq_i + 1}
    /\ UNCHANGED <<seq_phase, seq_i, seq_results, seq_progress, seq_report,
                   in_vars, thr_vars, unit_vars, rc_vars, aux_vars>>

\* analyze_domain comes back and the iteration ends, lines 326-337.
SeqStep ==
    /\ seq_phase = "running"
    /\ seq_probing = {seq_i + 1}
    /\ seq_probing' = {}
    /\ LET i == seq_i + 1
           out == analyze_domain(domains[i], net[domains[i]])
           percent == progress_percent(i, total_domains)
       IN  IF out.kind = "raise"
           THEN /\ seq_phase' = "raised"
                /\ UNCHANGED <<seq_i, seq_results, seq_progress>>
           ELSE /\ seq_results' = Append(seq_results, out.val)
                /\ seq_i' = i
                /\ seq_progress' =
                       IF seq_reports_progress(i, total_domains)
                       THEN Append(seq_progress, percent) ELSE seq_progress
                /\ UNCHANGED seq_phase
    /\ UNCHANGED <<seq_report, in_vars, thr_vars, unit_vars, rc_vars,
                   aux_vars>>

\* The end of the sequential run with an empty domain list treated as an
\* error.
SeqReturn_empty_raises ==
    /\ seq_phase = "running"
    /\ seq_i = total_domains
    /\ seq_phase' = IF total_domains = 0 THEN "raised" ELSE "returned"
    /\ UNCHANGED <<seq_probing, seq_i, seq_results, seq_progress, seq_report,
                   in_vars, thr_vars, unit_vars, rc_vars, aux_vars>>

\* line 339
SeqReturn ==
    /\ seq_phase = "running"
    /\ seq_i = total_domains
    /\ seq_phase' = "returned"
    /\ UNCHANGED <<seq_probing, seq_i, seq_results, seq_progress, seq_report, in_vars,
                   thr_vars, unit_vars, rc_vars,
                   aux_vars>>

\* cli.analyze_domains, lines 63-71: the report of the sequential run.
SeqSave ==
    /\ seq_phase = "returned"
    /\ seq_report' = Some(domain_report(seq_results))
    /\ seq_phase' = "saved"
    /\ UNCHANGED <<seq_probing, seq_i, seq_results, seq_progress, in_vars, thr_vars,
                   unit_vars, rc_vars,
                   aux_vars>>

\* cli.analyze_domains, lines 73-75: any exception ends the run with exit 1.
SeqExit ==
    /\ seq_phase = "raised"
    /\ seq_phase' = "exit1"
    /\ UNCHANGED <<seq_probing, seq_i, seq_results, seq_progress, seq_report, in_vars,
                   thr_vars, unit_vars, rc_vars,
                   aux_vars>>

Running == {k \in 1..total_domains : futures[k] = "running"}

\* A pool that starts every queued task at once, whatever max_workers is.
StartWork_unbounded(k) ==
    /\ futures[k] = "pending"
    /\ \A j \in 1..(k - 1) : futures[j] # "pending"
    /\ futures' = [futures EXCEPT ![k] = "running"]
    /\ UNCHANGED <<thr_phase, collected, thr_results, completed_count,
                   last_reported_percent, thr_progress, thr_report, in_vars,
                   seq_vars, unit_vars, rc_vars, aux_vars>>

\* A worker of the pool takes the oldest queued task, lines 350-355.
StartWork(k) ==
    /\ futures[k] = "pending"
    /\ \A j \in 1..(k - 1) : futures[j] # "pending"
    /\ Cardinality(Running) < max_workers
    /\ futures' = [futures EXCEPT ![k] = "running"]
    /\ UNCHANGED <<thr_phase, collected, thr_results, completed_count,
                   last_reported_percent, thr_progress, thr_report, in_vars,
                   seq_vars, unit_vars, rc_vars,
                   aux_vars>>

\* analyze_domain of the task returns or raises: its future is done.
FinishWork(k) ==
    /\ futures[k] = "running"
    /\ futures' = [futures EXCEPT ![k] = "finished"]
    /\ UNCHANGED <<thr_phase, collected, thr_results, completed_count,
                   last_reported_percent, thr_progress, thr_report, in_vars,
                   seq_vars, unit_vars, rc_vars,
                   aux_vars>>

IsCollected(k) == \E j \in 1..Len(collected) : collected[j] = k

\* One iteration of the loop over as_completed, lines 358-391.
Collect(k) ==
    /\ thr_phase = "running"
    /\ futures[k] = "finished"
    /\ ~IsCollected(k)
    /\ collected' = Append(collected, k)
    /\ LET out == future_result(k)
           count == completed_count + 1
           percent == progress_percent(count, total_domains)
           report == thr_reports_progress(count, total_domains,
                                          last_reported_percent)
       IN  IF out.kind = "raise" /\ ~IsAnyOf(out.exc, CollectCaught)
           THEN /\ thr_phase' = "unwinding"
                /\ UNCHANGED <<thr_results, completed_count,
                               last_reported_percent, thr_progress>>
           ELSE /\ thr_results' =
                       Append(thr_results,
                              IF out.kind = "return" THEN out.val
                              ELSE error_result(domains[k], out.exc))
                /\ completed_count' = count
                /\ thr_progress' =
                       IF report THEN Append(thr_progress, percent)
                       ELSE thr_progress
                /\ last_reported_percent' =
                       IF report THEN percent ELSE last_reported_percent
                /\ UNCHANGED thr_phase
    /\ UNCHANGED <<futures, thr_report, in_vars, seq_vars, unit_vars, rc_vars,
                   aux_vars>>

AllFinished == \A k \in 1..total_domains : futures[k] = "finished"

\* The loop is over and the pool has shut down: sort and return, 393-395.
ThreadedReturn ==
    /\ thr_phase = "running"
    /\ Len(collected) = total_domains
    /\ AllFinished
    /\ thr_results' = sort_by_domain(thr_results)
    /\ thr_phase' = "returned"
    /\ UNCHANGED <<futures, collected, completed_count, last_reported_percent,
                   thr_progress, thr_report, in_vars, seq_vars, unit_vars,
                   rc_vars,
                   aux_vars>>

\* An exception left the loop: the with block waits for the pool to finish
\* every submitted task, then the exception leaves the function.
ThreadedRaise ==
    /\ thr_phase = "unwinding"
    /\ AllFinished
    /\ thr_phase' = "raised"
    /\ UNCHANGED <<futures, collected, thr_results, completed_count,
                   last_reported_percent, thr_progress, thr_report, in_vars,
                   seq_vars, unit_vars, rc_vars,
                   aux_vars>>

\* cli.analyze_domains, lines 63-71: the report of the threaded run.
ThreadedSave ==
    /\ thr_phase = "returned"
    /\ thr_report' = Some(domain_report(thr_results))
    /\ thr_phase' = "saved"
    /\ UNCHANGED <<futures, collected, thr_results, completed_count,
                   last_reported_percent, thr_progress, in_vars, seq_vars,
                   unit_vars, rc_vars,
                   aux_vars>>

\* cli.analyze_domains, lines 73-75.
ThreadedExit ==
    /\ thr_phase = "raised"
    /\ thr_phase' = "exit1"
    /\ UNCHANGED <<futures, collected, thr_results, completed_count,
                   last_reported_percent, thr_progress, thr_report, in_vars,
                   seq_vars, unit_vars, rc_vars,
                   aux_vars>>

Next ==
    \/ SeqBegin
    \/ SeqStep
    \/ SeqReturn
    \/ SeqSave
    \/ SeqExit
    \/ \E k \in 1..total_domains : StartWork(k)
    \/ \E k \in 1..total_domains : FinishWork(k)
    \/ \E k \in 1..total_domains : Collect(k)
    \/ ThreadedReturn
    \/ ThreadedRaise
    \/ ThreadedSave
    \/ ThreadedExit

Spec == Init /\ [][Next]_vars

(***************************************************************************)
(* Properties.                                                             *)
(***************************************************************************)
SeqReturned == seq_phase \in {"returned", "saved"}
ThrReturned == thr_phase \in {"returned", "saved"}
SeqFinished == seq_phase \in {"returned", "saved", "raised", "exit1"}
ThrFinished == thr_phase \in {"returned", "saved", "raised", "exit1"}

UnitRaises(k) == analyze_domain(domains[k], net[domains[k]]).kind = "raise"
NoUnitRaises == \A k \in 1..total_domains : ~UnitRaises(k)

\* domain -> the records a result list holds for it
Mapping(rs) ==
    [d \in {rs[i].domain : i \in 1..Len(rs)} |->
        {rs[i] : i \in {j \in 1..Len(rs) : rs[j].domain = d}}]

\* One record per input domain and no other record.
Covers(rs) ==
    /\ Len(rs) = total_domains
    /\ \A k \in 1..total_domains :
           Cardinality({i \in 1..Len(rs) : rs[i].domain = domains[k]}) = 1

IsSortedByDomain(rs) ==
    \A i, j \in 1..Len(rs) : i < j => ~StrLess(rs[j].domain, rs[i].domain)

IsSynthetic(r) ==
    /\ r.dns_status = "ERROR"
    /\ r.http_status = 0
    /\ r.whois_status = "unknown"
    /\ "error" \in DOMAIN r

\* C1: for one domain list and one assignment of probe outcomes, the
\* sequential and the threaded run return the same mapping from domain to
\* record (DNS status, HTTP status, WHOIS status, CNAME, WHOIS details),
\* whatever the number of workers and the order of completion; and when every
\* probe returns a value neither run ends with an exception.
C1_ModesAgree ==
    /\ (SeqReturned /\ ThrReturned) => Mapping(seq_results) = Mapping(thr_results)
    /\ NoUnitRaises => /\ seq_phase \notin {"raised", "exit1"}
                       /\ thr_phase \notin {"unwinding", "raised", "exit1"}

\* Both runs have returned a list of two or more domains with different
\* records, the threaded one having collected a later domain first.
C1_Witness ==
    /\ SeqReturned /\ ThrReturned
    /\ total_domains >= 2
    /\ collected[1] > collected[2]
    /\ seq_results[1].dns_status # seq_results[2].dns_status

\* C2: when a run of the resolver has finished, in either mode, and also
\* when work units raised, it has returned a list with exactly one record
\* per input domain and no other record.
C2_ExactlyOneRecordPerDomain ==
    /\ SeqFinished => (SeqReturned /\ Covers(seq_results))
    /\ ThrFinished => (ThrReturned /\ Covers(thr_results))

\* C3: when a run has finished, in either mode, every domain whose work
\* unit raised has a synthetic record (ERROR, 0, unknown, error note) in the
\* returned list.
C3_SyntheticRecordForFailedUnit ==
    /\ SeqFinished =>
           \A k \in 1..total_domains : UnitRaises(k) =>
               /\ SeqReturned
               /\ \E i \in 1..Len(seq_results) :
                      seq_results[i].domain = domains[k] /\ IsSynthetic(seq_results[i])
    /\ ThrFinished =>
           \A k \in 1..total_domains : UnitRaises(k) =>
               /\ ThrReturned
               /\ \E i \in 1..Len(thr_results) :
                      thr_results[i].domain = domains[k] /\ IsSynthetic(thr_results[i])

\* C4: when a run has finished, in either mode, every domain whose own work
\* unit did not raise has in the output the record of its work unit, also
\* when the work unit of another domain raised.
C4_OtherDomainsUnaffected ==
    /\ SeqFinished =>
           \A k \in 1..total_domains : ~UnitRaises(k) =>
               /\ SeqReturned
               /\ \E i \in 1..Len(seq_results) : seq_results[i] = future_result(k).val
    /\ ThrFinished =>
           \A k \in 1..total_domains : ~UnitRaises(k) =>
               /\ ThrReturned
               /\ \E i \in 1..Len(thr_results) : thr_results[i] = future_result(k).val

\* C5: the list a run returns is sorted by domain name in ascending ordinal
\* order, in both modes and for every order of completion.
C5_ResultsSorted ==
    /\ SeqReturned => IsSortedByDomain(seq_results)
    /\ ThrReturned => IsSortedByDomain(thr_results)

\* The threaded run has returned three records after collecting the last
\* domain of the list first.
C5_Witness ==
    /\ ThrReturned
    /\ Len(thr_results) = 3
    /\ collected[1] = 3

\* C6: whatever the probes do, no run ends with an exception instead of a
\* report, and a saved report has a record for every input domain.
C6_NeverCrashesAlwaysReports ==
    /\ seq_phase \notin {"raised", "exit1"}
    /\ thr_phase \notin {"raised", "exit1"}
    /\ seq_phase = "saved" => Covers(seq_report[1].domains)
    /\ thr_phase = "saved" => Covers(thr_report[1].domains)

\* C7: reconciliation returns registered whenever dns_status is NOERROR,
\* for every whois_status.
C7_NoErrorIsRegistered ==
    (rc_pc = "done" /\ rc_dns = "NOERROR") => rc_out = "registered"

\* Reconciliation has answered for NOERROR with a WHOIS status that says
\* something else.
C7_Witness ==
    /\ rc_pc = "done"
    /\ rc_dns = "NOERROR"
    /\ rc_whois = "available"

\* C8: for NXDOMAIN reconciliation returns registered if WHOIS says
\* registered, available if it says available, unknown otherwise; for
\* TIMEOUT, SERVFAIL and ERROR it returns whois_status unchanged; for a
\* whois_status among registered, available, unknown the result is one of
\* these three.
C8_ReconcileTable ==
    rc_pc = "done" =>
        /\ rc_dns = "NXDOMAIN" =>
               rc_out = (IF rc_whois = "registered" THEN "registered"
                         ELSE IF rc_whois = "available" THEN "available"
                         ELSE "unknown")
        /\ rc_dns \in {"TIMEOUT", "SERVFAIL", "ERROR"} => rc_out = rc_whois
        /\ rc_whois \in WhoisStatuses => rc_out \in WhoisStatuses

\* Reconciliation has answered unknown for NXDOMAIN with a WHOIS status that
\* is none of the three.
C8_Witness ==
    /\ rc_pc = "done"
    /\ rc_dns = "NXDOMAIN"
    /\ rc_whois = "error"
    /\ rc_out = "unknown"

\* C9: no probe lets an exception through to analyze_domain, whatever the
\* network call raises, and the DNS probe's status is one of NOERROR,
\* NXDOMAIN, TIMEOUT, SERVFAIL, ERROR.
C9_ProbesNeverRaise ==
    /\ dns_result.kind # "raise"
    /\ http_result.kind # "raise"
    /\ whois_result.kind # "raise"
    /\ dns_result.kind = "return" => dns_result.val.status \in DnsStatuses

\* C10: a work unit that has ended has returned, having run all three
\* probes, and its record carries the DNS and HTTP values of the probes and
\* the status reconciled from the DNS and WHOIS values.
C10_ProbeFailureDoesNotAbortUnit ==
    unit_pc \in {"returned", "raised"} =>
        /\ unit_pc = "returned"
        /\ calls = <<"check_dns_status", "check_http_status", "check_whois_status">>
        /\ unit_result.val.dns_status = dns_result.val.status
        /\ unit_result.val.http_status = http_result.val
        /\ unit_result.val.whois_status =
               determine_availability_status(dns_result.val.status,
                                             whois_result.val.status)

\* The HEAD requests among the calls made so far, in order.
HeadRequestsMade == SelectSeq(net_calls, LAMBDA c : c \in {"https", "http"})

\* The HTTP probe has been run.
HttpProbed == Len(calls) >= 2

\* An attempt that failed with an SSL error, a connection error or a timeout.
AttemptFailed(o) ==
    /\ o.kind = "raise"
    /\ IsAnyOf(o.exc, {"SSLError", "ConnectionError", "requests.Timeout"})

\* C11: the HTTP probe requests https first and http only after the https
\* attempt failed, never after an https response and never more than two
\* requests; an https attempt that failed with an SSL error, a connection
\* error or a timeout is followed by the http attempt; the probe returns the
\* status code of the first attempt that got a response, whatever the code,
\* and 0 when both attempts failed.
C11_HttpsFirstThenHttp ==
    (HttpProbed /\ unit_domain # <<>>) =>
        /\ HeadRequestsMade \in {<<"https">>, <<"https", "http">>}
        /\ Len(HeadRequestsMade) = 2 => unit_net.https.kind = "raise"
        /\ AttemptFailed(unit_net.https) => Len(HeadRequestsMade) = 2
        /\ unit_net.https.kind = "return" =>
               http_result = Return(unit_net.https.val)
        /\ (Len(HeadRequestsMade) = 2 /\ unit_net.http.kind = "return") =>
               http_result = Return(unit_net.http.val)
        /\ (AttemptFailed(unit_net.https) /\ AttemptFailed(unit_net.http)) =>
               http_result = Return(0)

\* The https attempt ended in an SSL error, http was requested next and
\* answered 404, which the probe returned.
C11_Witness ==
    /\ HttpProbed
    /\ unit_net.https = Raise("SSLError")
    /\ unit_net.http = Return(404)
    /\ HeadRequestsMade = <<"https", "http">>
    /\ http_result = Return(404)

\* The WHOIS probe has been run.
WhoisProbed == Len(calls) >= 3

\* C12: the WHOIS probe answers registered when the lookup returns a record
\* whose status or creation date is present, available when both are absent
\* or when the lookup reports the domain as not found, and unknown on every
\* other lookup failure and for an empty domain name.
C12_WhoisTruthTable ==
    WhoisProbed =>
        /\ whois_result.kind = "return"
        /\ whois_result.val.status =
               (IF unit_domain = <<>> THEN "unknown"
                ELSE IF unit_net.whois.kind = "return"
                THEN IF \/ ~unit_net.whois.val.status_is_none
                        \/ ~IsNone(unit_net.whois.val.creation_date)
                     THEN "registered" ELSE "available"
                ELSE IF unit_net.whois.exc = "WhoisDomainNotFoundError"
                THEN "available" ELSE "unknown")

\* The lookup returned a record without a status but with a creation date,
\* and the probe answered registered.
C12_Witness ==
    /\ WhoisProbed
    /\ unit_domain # <<>>
    /\ unit_net.whois.kind = "return"
    /\ unit_net.whois.val.status_is_none
    /\ unit_net.whois.val.creation_date = Single("d1")
    /\ whois_result.val.status = "registered"

\* The DNS probe has been run.
DnsProbed == Len(calls) >= 1

\* The status the address-record lookup stands for.
StatusOfALookup(o) ==
    IF o.kind = "return" \/ o.exc = "NoAnswer" THEN "NOERROR"
    ELSE IF o.exc = "NXDOMAIN" THEN "NXDOMAIN"
    ELSE IF o.exc = "dns.Timeout" THEN "TIMEOUT"
    ELSE IF o.exc = "NoNameservers" THEN "SERVFAIL"
    ELSE "ERROR"

\* The CNAME lookup found nothing: no answer, or a DNS failure.
CnameMissing(o) ==
    \/ o = Return(<<>>)
    \/ o.kind = "raise" /\ IsInstance(o.exc, "DNSException")

\* C13: the DNS probe's status is the one the address-record lookup stands
\* for (success or no answer NOERROR, name does not exist NXDOMAIN, timeout
\* TIMEOUT, no nameservers SERVFAIL, anything else ERROR); the CNAME lookup
\* is made only after NXDOMAIN, a cname is carried only with NXDOMAIN, and a
\* missing CNAME leaves NXDOMAIN with no cname.
C13_DnsTable ==
    DnsProbed =>
        /\ dns_result.kind = "return"
        /\ dns_result.val.status = StatusOfALookup(unit_net.a)
        /\ (\E i \in DOMAIN net_calls : net_calls[i] = "CNAME") =>
               StatusOfALookup(unit_net.a) = "NXDOMAIN"
        /\ dns_result.val.cname # None => dns_result.val.status = "NXDOMAIN"
        /\ (unit_net.cname # NotCalled /\ CnameMissing(unit_net.cname)) =>
               dns_result.val = [status |-> "NXDOMAIN", cname |-> None]
        /\ (unit_pc = "returned" /\ "cname_record" \in DOMAIN unit_result.val) =>
               unit_result.val.dns_status = "NXDOMAIN"

\* The part of C13 that does not depend on the CNAME lookup's exceptions:
\* whenever the DNS probe returns, it returns what C13 says.
C13_DnsTableWhenReturned ==
    (DnsProbed /\ dns_result.kind = "return") =>
        /\ dns_result.val.status = StatusOfALookup(unit_net.a)
        /\ (\E i \in DOMAIN net_calls : net_calls[i] = "CNAME") =>
               StatusOfALookup(unit_net.a) = "NXDOMAIN"
        /\ dns_result.val.cname # None => dns_result.val.status = "NXDOMAIN"
        /\ (unit_net.cname # NotCalled /\ CnameMissing(unit_net.cname)) =>
               dns_result.val = [status |-> "NXDOMAIN", cname |-> None]
        /\ (unit_pc = "returned" /\ "cname_record" \in DOMAIN unit_result.val) =>
               unit_result.val.dns_status = "NXDOMAIN"

\* The keys of a domain record that hold WHOIS details.
WhoisDetailKeys == {"registered_at", "expiry_date", "last_updated", "nameservers"}

\* C14: a domain record carries WHOIS detail fields (registered_at,
\* expiry_date, last_updated, nameservers) only when the WHOIS probe
\* classified the domain as registered; a record whose WHOIS status is
\* available or unknown has none of them.
C14_DetailsOnlyWhenRegistered ==
    unit_pc = "returned" =>
        /\ whois_result.val.status # "registered" =>
               DOMAIN unit_result.val \cap WhoisDetailKeys = {}
        /\ unit_result.val.whois_status \in {"available", "unknown"} =>
               DOMAIN unit_result.val \cap WhoisDetailKeys = {}

\* C15: in threaded mode at most max_workers domains are being probed at
\* the same time, and in sequential mode at most one.
C15_BoundedConcurrency ==
    /\ Cardinality(Running) <= max_workers
    /\ Cardinality(seq_probing) <= 1

\* Two workers are both busy while a third task waits in the queue, and the
\* sequential run is inside analyze_domain.
C15_Witness ==
    /\ max_workers = 2
    /\ Cardinality(Running) = 2
    /\ \E k \in 1..total_domains : futures[k] = "pending"
    /\ Cardinality(seq_probing) = 1

(* ------------------------- the progress reports ----------------------- *)
\* The largest number of domains of a run whose progress log is followed.
MaxTotal == 102

\* One run of either mode on pg_total domains; only what the progress log
\* depends on is kept: the count of finished units and, in threaded mode,
\* last_reported_percent.
InitProgress ==
    /\ pg_mode \in {"sequential", "threaded"}
    /\ pg_total \in 1..MaxTotal
    /\ pg_count = 0
    /\ pg_last = -1
    /\ pg_log = <<>>
    /\ SummaryIdle
    /\ ExtIdle
    /\ UnitIdle
    /\ RcIdle
    /\ ResolverIdle

\* The end of one iteration of the sequential loop, lines 329-337.
SeqProgress ==
    /\ pg_mode = "sequential"
    /\ pg_count < pg_total
    /\ LET i == pg_count + 1
       IN  /\ pg_count' = i
           /\ pg_log' =
                  IF seq_reports_progress(i, pg_total)
                  THEN Append(pg_log, [unit |-> i,
                                       percent |-> progress_percent(i, pg_total)])
                  ELSE pg_log
    /\ UNCHANGED <<pg_mode, pg_total, pg_last, sm_vars, ext_vars, unit_vars,
                   rc_vars, res_vars>>

\* The end of one iteration of the loop over as_completed, lines 377-391.
ThreadedProgress ==
    /\ pg_mode = "threaded"
    /\ pg_count < pg_total
    /\ LET count == pg_count + 1
           percent == progress_percent(count, pg_total)
           report == thr_reports_progress(count, pg_total, pg_last)
       IN  /\ pg_count' = count
           /\ pg_log' = IF report
                        THEN Append(pg_log, [unit |-> count, percent |-> percent])
                        ELSE pg_log
           /\ pg_last' = IF report THEN percent ELSE pg_last
    /\ UNCHANGED <<pg_mode, pg_total, sm_vars, ext_vars, unit_vars, rc_vars,
                   res_vars>>

NextProgress == SeqProgress \/ ThreadedProgress

SpecProgress == InitProgress /\ [][NextProgress]_vars

\* The report of the first or of the last unit of work.
FirstOrLast(entry) == entry.unit = 1 \/ entry.unit = pg_total

\* C16: within one run, in either mode, no two progress reports carry a
\* percentage in the same 10% band, apart from the reports for the first and
\* the last unit of work.
C16_OncePerBand ==
    \A a, b \in DOMAIN pg_log :
        (a < b /\ ~FirstOrLast(pg_log[a]) /\ ~FirstOrLast(pg_log[b])) =>
            pg_log[a].percent \div 10 # pg_log[b].percent \div 10

\* C16 for the threaded loop alone.
C16_ThreadedOncePerBand ==
    pg_mode = "threaded" => C16_OncePerBand

\* A report was logged for unit u.
Reported(u) == \E a \in DOMAIN pg_log : pg_log[a].unit = u

\* C17: in either mode, for every non-empty domain set, a progress report
\* is logged when the first unit of work finishes and when the last one
\* finishes, and each reported percentage is floor(completed * 100 / total).
C17_FirstAndLastReported ==
    /\ pg_count >= 1 => Reported(1)
    /\ (pg_total >= 1 /\ pg_count = pg_total) => Reported(pg_total)
    /\ \A a \in DOMAIN pg_log :
           pg_log[a].percent = (pg_log[a].unit * 100) \div pg_total

\* C17 for the sequential loop alone.
C17_SequentialFirstAndLastReported ==
    pg_mode = "sequential" => C17_FirstAndLastReported

(* ------------------------------ the report ---------------------------- *)
\* The probe values of the results a report is built from: each HTTP class
\* occurs, 999 standing for a status code outside 200..599.
SummaryStatuses ==
    {[dns_status |-> "NOERROR", http_status |-> 200, whois_status |-> "registered"],
     [dns_status |-> "NOERROR", http_status |-> 301, whois_status |-> "registered"],
     [dns_status |-> "NOERROR", http_status |-> 404, whois_status |-> "registered"],
     [dns_status |-> "NOERROR", http_status |-> 999, whois_status |-> "registered"],
     [dns_status |-> "NXDOMAIN", http_status |-> 0, whois_status |-> "available"],
     [dns_status |-> "TIMEOUT", http_status |-> 503, whois_status |-> "unknown"],
     [dns_status |-> "ERROR", http_status |-> 0, whois_status |-> "unknown"]}

\* A result list of up to MaxDomains domains, any of them with any of the
\* probe values above.
InitSummary ==
    /\ sm_pc = "input"
    /\ \E n \in 0..MaxDomains :
           \E f \in [1..n -> SummaryStatuses] :
               sm_results = [i \in 1..n |->
                                [domain |-> NamePool[i],
                                 dns_status |-> f[i].dns_status,
                                 http_status |-> f[i].http_status,
                                 whois_status |-> f[i].whois_status]]
    /\ sm_report = None
    /\ ProgressIdle
    /\ ExtIdle
    /\ UnitIdle
    /\ RcIdle
    /\ ResolverIdle

\* save_domain_report, lines 405-413: the report with its summary.
SaveReport ==
    /\ sm_pc = "input"
    /\ sm_report' = Some(domain_report(sm_results))
    /\ sm_pc' = "saved"
    /\ UNCHANGED <<sm_results, pg_vars, ext_vars, unit_vars, rc_vars,
                   res_vars>>

NextSummary == SaveReport

SpecSummary == InitSummary /\ [][NextSummary]_vars

RECURSIVE SumOver(_, _)
\* The sum of the counts h holds for the keys K.
SumOver(h, K) ==
    IF K = {} THEN 0
    ELSE LET k == CHOOSE x \in K : TRUE
         IN  h[k] + SumOver(h, K \ {k})

\* The sum of all counts of a distribution.
Total(h) == SumOver(h, DOMAIN h)

\* A report has been built from a non-empty result list.
Summarised == sm_pc = "saved" /\ sm_results # <<>>

\* C18: for every non-empty result list, in each of the three distributions
\* of the summary the counts sum to the number of results.
C18_CountsSumToTotal ==
    Summarised =>
        LET summary == sm_report[1].summary
        IN  /\ Total(summary.dns_status_distribution) = Len(sm_results)
            /\ Total(summary.http_status_distribution) = Len(sm_results)
            /\ Total(summary.whois_status_distribution) = Len(sm_results)

\* A report of three results, two of which share their DNS status, their
\* HTTP class and their WHOIS status.
C18_Witness ==
    /\ Summarised
    /\ Len(sm_results) = 3
    /\ sm_report[1].summary.dns_status_distribution =
           ("NOERROR" :> 2) @@ ("NXDOMAIN" :> 1)
    /\ sm_report[1].summary.http_status_distribution =
           ("success" :> 2) @@ ("unreachable" :> 1)
    /\ sm_report[1].summary.whois_status_distribution =
           ("registered" :> 2) @@ ("available" :> 1)

\* The http_status values of class c, as the summary is documented.
InHttpClass(c, http_status) ==
    CASE c = "unreachable" -> http_status = 0
      [] c = "success" -> http_status \in 200..299
      [] c = "redirect" -> http_status \in 300..399
      [] c = "client_error" -> http_status \in 400..499
      [] c = "server_error" -> http_status \in 500..599
      [] c = "other" -> http_status # 0 /\ http_status \notin 200..599

FiveHttpClasses ==
    {"success", "redirect", "client_error", "server_error", "unreachable"}

\* The results of the list whose http_status is of class c.
ResultsOfClass(c) ==
    {i \in 1..Len(sm_results) : InHttpClass(c, sm_results[i].http_status)}

\* C19 as claimed: every result is counted in the HTTP distribution under
\* exactly one of the five classes success, redirect, client_error,
\* server_error, unreachable, and the distribution has no other key.
C19_FiveHttpClasses ==
    Summarised =>
        LET http_stats == sm_report[1].summary.http_status_distribution
        IN  /\ DOMAIN http_stats \subseteq FiveHttpClasses
            /\ \A i \in 1..Len(sm_results) :
                   \E c \in FiveHttpClasses \cap DOMAIN http_stats :
                       /\ InHttpClass(c, sm_results[i].http_status)
                       /\ \A d \in FiveHttpClasses \ {c} :
                              ~InHttpClass(d, sm_results[i].http_status)
            /\ \A c \in DOMAIN http_stats :
                   http_stats[c] = Cardinality(ResultsOfClass(c))

\* C19 as the code has it: every result is counted in the HTTP distribution
\* under exactly one of six classes, the five above and other for a status
\* code that is neither 0 nor within 200..599, and the distribution has no
\* other key.
C19_SixHttpClasses ==
    Summarised =>
        LET http_stats == sm_report[1].summary.http_status_distribution
            classes == FiveHttpClasses \cup {"other"}
        IN  /\ DOMAIN http_stats \subseteq classes
            /\ \A i \in 1..Len(sm_results) :
                   \E c \in classes \cap DOMAIN http_stats :
                       /\ InHttpClass(c, sm_results[i].http_status)
                       /\ \A d \in classes \ {c} :
                              ~InHttpClass(d, sm_results[i].http_status)
            /\ \A c \in DOMAIN http_stats :
                   http_stats[c] = Cardinality(ResultsOfClass(c))

\* A report whose results include a status code outside 200..599, counted
\* under other, next to one counted under success.
C19_Witness ==
    /\ Summarised
    /\ \E i \in 1..Len(sm_results) : sm_results[i].http_status = 999
    /\ "other" \in DOMAIN sm_report[1].summary.http_status_distribution
    /\ "success" \in DOMAIN sm_report[1].summary.http_status_distribution

\* dict.get(key, {}): the way the report's readers take a distribution out
\* of the summary.
GetDistribution(summary, key) ==
    IF key \in DOMAIN summary THEN summary[key] ELSE EmptyDict

\* A report of no domains: total_domains 0, no domain records, and nothing
\* counted in any of the three distributions.
IsEmptyReport(report) ==
    /\ report.metadata.total_domains = 0
    /\ report.domains = <<>>
    /\ \A key \in {"dns_status_distribution", "http_status_distribution",
                   "whois_status_distribution"} :
           GetDistribution(report.summary, key) = EmptyDict

\* C20: on an empty domain list neither mode raises, each returns an empty
\* result list, and the saved report has total_domains 0, an empty domains
\* list and empty histograms.
C20_EmptyInputIsNotAnError ==
    domains = <<>> =>
        /\ seq_phase \notin {"raised", "exit1"}
        /\ thr_phase \notin {"unwinding", "raised", "exit1"}
        /\ SeqReturned => seq_results = <<>>
        /\ ThrReturned => thr_results = <<>>
        /\ seq_phase = "saved" => IsEmptyReport(seq_report[1])
        /\ thr_phase = "saved" => IsEmptyReport(thr_report[1])

\* Both modes have run on an empty domain list and their reports are saved.
C20_Witness ==
    /\ domains = <<>>
    /\ seq_phase = "saved"
    /\ thr_phase = "saved"
    /\ seq_report[1].domains = <<>>
    /\ thr_report[1].domains = <<>>

(* --------------------------- the input file --------------------------- *)
\* The largest number of entries of the input's domains array.
MaxEntries == 3

RECURSIVE LStrip(_)
LStrip(s) == IF s # <<>> /\ Head(s) = " " THEN LStrip(Tail(s)) ELSE s

RECURSIVE RStrip(_)
RStrip(s) ==
    IF s # <<>> /\ s[Len(s)] = " " THEN RStrip(SubSeq(s, 1, Len(s) - 1)) ELSE s

\* str.strip(), line 67
Strip(s) == RStrip(LStrip(s))

\* The 'domain' texts an entry of the file can hold.
DomainTexts ==
    {<<"a">>, <<" ", "a">>, <<"a", " ">>, <<"b">>, <<>>, <<" ">>}

\* An entry of the domains array: an object with a 'domain' string, an
\* object without that key, or an object whose 'domain' is null.
FileEntries ==
    {[kind |-> "entry", domain |-> Some(t)] : t \in DomainTexts} \cup
    {[kind |-> "entry", domain |-> None], [kind |-> "null domain"]}

\* What can be at the input path: nothing, a file that cannot be opened, a
\* file that is not UTF-8 text, text that is not JSON, a JSON array, a JSON
\* object without a domains key, a JSON object with a domains array.
InputFiles ==
    {[kind |-> k] : k \in {"missing", "unreadable", "not utf-8",
                           "invalid json", "array", "no domains key"}} \cup
    {[kind |-> "object", entries |-> es] :
        es \in UNION {[1..n -> FileEntries] : n \in 0..MaxEntries}}

\* The file is there, opens and holds a JSON object whose domains entries
\* all have a string or no 'domain'.
WellFormed(file) ==
    \/ file.kind = "no domains key"
    \/ /\ file.kind = "object"
       /\ \A i \in DOMAIN file.entries : file.entries[i].kind = "entry"

\* open(...) and json.load(f), lines 59-60: the parsed value, or the
\* exception raised.
load_json(file) ==
    CASE file.kind = "missing" -> Raise("FileNotFoundError")
      [] file.kind = "unreadable" -> Raise("PermissionError")
      [] file.kind = "not utf-8" -> Raise("UnicodeDecodeError")
      [] file.kind = "invalid json" -> Raise("JSONDecodeError")
      [] OTHER -> Return(file)

\* The exception classes extract_domains_from_json handles, line 72
\* (IOError is OSError).
ExtractCaught == {"OSError", "JSONDecodeError", "KeyError"}

\* domain_entry.get("domain", ""), line 67
entry_domain(e) == IF e.domain = None THEN <<>> ELSE e.domain[1]

\* The loop of lines 66-70 without the strip.
collect_domains_unstripped(entries) ==
    Sorted({entry_domain(entries[i]) : i \in DOMAIN entries} \ {<<>>})

\* The loop of lines 66-70: the stripped, non-empty domains as a sorted
\* list without duplicates.
collect_domains(entries) ==
    Sorted({Strip(entry_domain(entries[i])) : i \in DOMAIN entries} \ {<<>>})

\* extract_domains_from_json, lines 48-74
extract_domains_from_json(file) ==
    LET data == load_json(file)
    IN  IF data.kind = "raise"
        THEN IF IsAnyOf(data.exc, ExtractCaught) THEN Return(<<>>) ELSE data
        ELSE IF data.val.kind = "array" THEN Raise("AttributeError")
        ELSE IF data.val.kind = "no domains key" THEN Return(<<>>)
        ELSE IF \E i \in DOMAIN data.val.entries :
                    data.val.entries[i].kind = "null domain"
             THEN Raise("AttributeError")
        ELSE Return(collect_domains(data.val.entries))

\* The work units that let an exception through.
RaisingUnits(doms, n) ==
    {k \in DOMAIN doms : analyze_domain(doms[k], n[doms[k]]).kind = "raise"}

\* _analyze_domains_sequential as a whole: the domains analyze_domain was
\* called on and the list returned, or the first exception a unit let
\* through.
analyze_domains_sequential(doms, n) ==
    IF RaisingUnits(doms, n) = {}
    THEN [probed |-> doms,
          outcome |-> Return([k \in DOMAIN doms |->
                                 analyze_domain(doms[k], n[doms[k]]).val])]
    ELSE LET k == CHOOSE x \in RaisingUnits(doms, n) :
                      \A y \in RaisingUnits(doms, n) : x <= y
         IN  [probed |-> SubSeq(doms, 1, k),
              outcome |-> analyze_domain(doms[k], n[doms[k]])]

\* The work units whose exception the collecting loop does not handle.
UncaughtUnits(doms, n) ==
    {k \in RaisingUnits(doms, n) :
        ~IsAnyOf(analyze_domain(doms[k], n[doms[k]]).exc, CollectCaught)}

\* _analyze_domains_threaded as a whole, when unit k is the first whose
\* exception leaves the collecting loop (k = 0: none does).  The pool runs
\* every submitted task either way.
analyze_domains_threaded(doms, n, k) ==
    IF k = 0
    THEN [probed |-> doms,
          outcome |->
              Return(sort_by_domain(
                  [j \in DOMAIN doms |->
                      LET out == analyze_domain(doms[j], n[doms[j]])
                      IN  IF out.kind = "return" THEN out.val
                          ELSE error_result(doms[j], out.exc)]))]
    ELSE [probed |-> doms,
          outcome |-> analyze_domain(doms[k], n[doms[k]])]

\* One run of the command on one input path, or of
\* analyze_domains_from_json called directly.
InitInput ==
    /\ cli_pc \in {"command", "library"}
    /\ cli_file \in InputFiles
    /\ cli_threading \in BOOLEAN
    /\ cli_domains = NotYet
    /\ cli_probed = <<>>
    /\ cli_results = NotYet
    /\ cli_report = None
    /\ cli_exit = NotYet
    /\ PixelsIdle
    /\ CategoriesIdle
    /\ ProgressIdle
    /\ SummaryIdle
    /\ UnitIdle
    /\ RcIdle
    /\ ResolverIdle

\* cli.analyze_domains, lines 39-41: the path is checked first; sys.exit(1)
\* raises SystemExit, which the handler of line 73 does not catch.
CheckInputFile ==
    /\ cli_pc = "command"
    /\ IF cli_file.kind = "missing"
       THEN cli_pc' = "exited" /\ cli_exit' = "error"
       ELSE cli_pc' = "checked" /\ UNCHANGED cli_exit
    /\ UNCHANGED <<cli_file, cli_threading, cli_domains, cli_probed,
                   cli_results, cli_report, px_vars, cat_vars, pg_vars,
                   sm_vars, unit_vars,
                   rc_vars, res_vars>>

\* analyze_domains_from_json, line 312
ExtractDomains ==
    /\ cli_pc \in {"checked", "library"}
    /\ cli_domains = NotYet
    /\ cli_domains' = extract_domains_from_json(cli_file)
    /\ cli_pc' = IF cli_pc = "checked" THEN "extracted" ELSE "library extracted"
    /\ UNCHANGED <<cli_file, cli_threading, cli_probed, cli_results,
                   cli_report, cli_exit, px_vars, cat_vars, pg_vars,
                   sm_vars, unit_vars,
                   rc_vars, res_vars>>

\* analyze_domains_from_json, lines 316-318: the resolver on the extracted
\* domains, in the mode asked for.
AnalyzeDomains ==
    /\ cli_pc \in {"extracted", "library extracted"}
    /\ cli_domains.kind = "return"
    /\ cli_results = NotYet
    /\ LET doms == cli_domains.val
       IN  \E n \in [{doms[k] : k \in DOMAIN doms} -> UnitScenarios] :
               \E k \in IF cli_threading /\ UncaughtUnits(doms, n) # {}
                        THEN UncaughtUnits(doms, n) ELSE {0} :
                   LET run == IF cli_threading
                              THEN analyze_domains_threaded(doms, n, k)
                              ELSE analyze_domains_sequential(doms, n)
                   IN  /\ cli_probed' = run.probed
                       /\ cli_results' = run.outcome
    /\ UNCHANGED <<cli_pc, cli_file, cli_threading, cli_domains, cli_report,
                   cli_exit, px_vars, cat_vars, pg_vars,
                   sm_vars, unit_vars, rc_vars, res_vars>>

\* cli.analyze_domains, lines 63-71: the report is written and the command
\* ends normally.
SaveDomainReport ==
    /\ cli_pc = "extracted"
    /\ cli_results # NotYet
    /\ cli_results.kind = "return"
    /\ cli_report' = Some(domain_report(cli_results.val))
    /\ cli_exit' = "ok"
    /\ cli_pc' = "exited"
    /\ UNCHANGED <<cli_file, cli_threading, cli_domains, cli_probed,
                   cli_results, px_vars, cat_vars, pg_vars,
                   sm_vars, unit_vars, rc_vars,
                   res_vars>>

\* cli.analyze_domains, lines 73-75: an exception of the extraction or of
\* the resolver ends the command with exit status 1.
CommandFails ==
    /\ cli_pc = "extracted"
    /\ \/ cli_domains.kind = "raise"
       \/ cli_results # NotYet /\ cli_results.kind = "raise"
    /\ cli_exit' = "error"
    /\ cli_pc' = "exited"
    /\ UNCHANGED <<cli_file, cli_threading, cli_domains, cli_probed,
                   cli_results, cli_report, px_vars, cat_vars, pg_vars,
                   sm_vars, unit_vars,
                   rc_vars, res_vars>>

\* analyze_domains_from_json called directly returns the list or lets the
\* exception through to its caller.
LibraryReturn ==
    /\ cli_pc = "library extracted"
    /\ \/ cli_domains.kind = "raise"
       \/ cli_results # NotYet
    /\ cli_exit' = IF cli_domains.kind = "return" /\ cli_results.kind = "return"
                   THEN "ok" ELSE "error"
    /\ cli_pc' = "exited"
    /\ UNCHANGED <<cli_file, cli_threading, cli_domains, cli_probed,
                   cli_results, cli_report, px_vars, cat_vars, pg_vars,
                   sm_vars, unit_vars,
                   rc_vars, res_vars>>

NextInput ==
    \/ CheckInputFile
    \/ ExtractDomains
    \/ AnalyzeDomains
    \/ SaveDomainReport
    \/ CommandFails
    \/ LibraryReturn

SpecInput == InitInput /\ [][NextInput]_vars

\* Nothing usable is at the input path: no file, or a file that is not
\* JSON text.
MissingOrCorrupt(file) == file.kind \in {"missing", "not utf-8", "invalid json"}

\* C21: a missing or corrupt input file is surfaced to the caller at once
\* as a fatal error, and then no report is produced: the resolver is not
\* started, no probe is run and no report file is written.
C21_BadInputIsFatal ==
    MissingOrCorrupt(cli_file) =>
        /\ cli_pc = "exited" => cli_exit = "error"
        /\ cli_results = NotYet
        /\ cli_probed = <<>>
        /\ cli_report = None

\* The part of C21 that holds whatever the input is like: a missing or
\* corrupt input file never leads to a probe.
C21_BadInputRunsNoProbe ==
    MissingOrCorrupt(cli_file) => cli_probed = <<>>

\* C22: extract_domains_from_json returns an empty list, and raises
\* nothing, when the input file does not exist or does not contain valid
\* JSON.
C22_ExtractSwallowsBadInput ==
    (MissingOrCorrupt(cli_file) /\ cli_domains # NotYet) =>
        cli_domains = Return(<<>>)

\* C22 for a file that is missing or holds text that is not JSON.
C22_ExtractSwallowsMissingAndBadText ==
    (cli_file.kind \in {"missing", "invalid json"} /\ cli_domains # NotYet) =>
        cli_domains = Return(<<>>)

\* The stripped 'domain' texts of the entries of a well-formed file.
StrippedDomains(file) ==
    IF file.kind = "no domains key" THEN {}
    ELSE {Strip(file.entries[i].domain[1]) :
             i \in {j \in DOMAIN file.entries : file.entries[j].domain # None}}

\* C23: extract_domains_from_json returns the 'domain' fields of the
\* input's domains array, each stripped of surrounding whitespace, as a
\* list sorted ascending with no duplicates and no empty string, and every
\* non-empty domain of the input is in it.
C23_ExtractUniqueSortedStripped ==
    (WellFormed(cli_file) /\ cli_domains # NotYet) =>
        /\ cli_domains.kind = "return"
        /\ LET ds == cli_domains.val
           IN  /\ \A i \in DOMAIN ds :
                      ds[i] # <<>> /\ ds[i] \in StrippedDomains(cli_file)
               /\ \A i, j \in DOMAIN ds : i < j => StrLess(ds[i], ds[j])
               /\ \A d \in StrippedDomains(cli_file) :
                      d # <<>> => \E i \in DOMAIN ds : ds[i] = d

\* A file whose entries hold "b", " a" and "a" gave the list a, b.
C23_Witness ==
    /\ cli_file.kind = "object"
    /\ Len(cli_file.entries) = 3
    /\ cli_file.entries[1] = [kind |-> "entry", domain |-> Some(<<"b">>)]
    /\ cli_file.entries[2] = [kind |-> "entry", domain |-> Some(<<" ", "a">>)]
    /\ cli_file.entries[3] = [kind |-> "entry", domain |-> Some(<<"a">>)]
    /\ cli_domains = Return(<< <<"a">>, <<"b">> >>)

\* The reconciled status, as a table: registered for NOERROR; for NXDOMAIN
\* what WHOIS says if that is registered or available, else unknown; the
\* WHOIS status itself otherwise.
ReconciledStatus(dns_status, whois_status) ==
    CASE dns_status = "NOERROR" -> "registered"
      [] dns_status = "NXDOMAIN" ->
             IF whois_status \in {"registered", "available"}
             THEN whois_status ELSE "unknown"
      [] OTHER -> whois_status

\* C24: in every record built by analyze_domain the whois_status field is
\* the status reconciled from dns_status and the raw WHOIS status, not the
\* raw WHOIS status, while dns_status and http_status are the probes' values
\* unchanged; DNS NOERROR with HTTP 200 gives (NOERROR, 200, registered) and
\* DNS NXDOMAIN with WHOIS available and HTTP 0 gives (NXDOMAIN, 0,
\* available).
C24_RecordHoldsReconciledStatus ==
    unit_pc = "returned" =>
        LET r == unit_result.val
        IN  /\ r.whois_status = ReconciledStatus(dns_result.val.status,
                                                 whois_result.val.status)
            /\ r.dns_status = dns_result.val.status
            /\ r.http_status = http_result.val
            /\ (dns_result.val.status = "NOERROR" /\ http_result.val = 200) =>
                   /\ r.dns_status = "NOERROR"
                   /\ r.http_status = 200
                   /\ r.whois_status = "registered"
            /\ (/\ dns_result.val.status = "NXDOMAIN"
                /\ whois_result.val.status = "available"
                /\ http_result.val = 0) =>
                   /\ r.dns_status = "NXDOMAIN"
                   /\ r.http_status = 0
                   /\ r.whois_status = "available"

\* A record was built for a name that resolves and answers 200 while WHOIS
\* calls it available: the record says registered.
C24_Witness ==
    /\ unit_pc = "returned"
    /\ dns_result.val.status = "NOERROR"
    /\ http_result.val = 200
    /\ whois_result.val.status = "available"
    /\ unit_result.val.whois_status = "registered"

\* C25: save_domain_report writes a report with the three keys metadata,
\* summary and domains, where metadata.total_domains is the number of
\* results and domains is the given result list, the same records in the
\* same order; the result records themselves are not modified.
C25_ReportHoldsResultsUnchanged ==
    /\ [](sm_pc = "saved" =>
             /\ DOMAIN sm_report[1] = {"metadata", "summary", "domains"}
             /\ sm_report[1].metadata.total_domains = Len(sm_results)
             /\ sm_report[1].domains = sm_results)
    /\ [][sm_results' = sm_results]_vars

\* A report was written for two results that are not in order of domain
\* name, and holds them in the order given.
C25_Witness ==
    /\ sm_pc = "saved"
    /\ Len(sm_results) = 2
    /\ StrLess(sm_results[2].domain, sm_results[1].domain)
    /\ sm_report[1].domains = sm_results

(* ----------------- analyzer.py: areas grouped by domain --------------- *)
\* The largest number of areas of the pixel data.
MaxAreas == 3

\* A URL is kept in parts: the scheme written in it (or none), whether the
\* host starts with "www.", and the rest of the host as a string.
BlankUrl == [scheme |-> "", www |-> FALSE, host |-> <<>>]

Urls ==
    {[scheme |-> "http://", www |-> FALSE, host |-> <<"a", ".", "b">>],
     [scheme |-> "https://", www |-> TRUE, host |-> <<"a", ".", "b">>],
     [scheme |-> "", www |-> FALSE, host |-> <<"A", ".", "b">>],
     [scheme |-> "http://", www |-> FALSE, host |-> <<"b", ".", "a">>],
     [scheme |-> "http://", www |-> FALSE, host |-> <<"a">>],
     [scheme |-> "", www |-> FALSE, host |-> <<"a", " ", "b">>],
     BlankUrl}

\* str.lower() on the host, line 102
LowerStr(s) == [i \in DOMAIN s |-> IF s[i] = "A" THEN "a" ELSE s[i]]

HasChar(s, c) == \E i \in DOMAIN s : s[i] = c

\* _extract_domain_from_url, lines 78-119: (domain, cleaned_url), or
\* ("", "") for a URL without a usable host.
extract_domain_from_url(url) ==
    LET domain == LowerStr(url.host)
    IN  IF url = BlankUrl THEN <<<<>>, BlankUrl>>
        ELSE IF domain = <<>> \/ HasChar(domain, " ") THEN <<<<>>, BlankUrl>>
        ELSE IF ~HasChar(domain, ".") THEN <<<<>>, BlankUrl>>
        ELSE <<domain, url>>

\* area.copy() with its url replaced by the cleaned one, lines 140-141
area_copy(area) ==
    [area EXCEPT !.url = extract_domain_from_url(area.url)[2]]

domain_key(area) == extract_domain_from_url(area.url)[1]

RECURSIVE GroupKeys(_)
\* The keys of domain_groups in the order they were first inserted.
GroupKeys(areas) ==
    IF areas = <<>> THEN <<>>
    ELSE LET front == GroupKeys(SubSeq(areas, 1, Len(areas) - 1))
             k == domain_key(areas[Len(areas)])
         IN  IF \E i \in DOMAIN front : front[i] = k THEN front
             ELSE Append(front, k)

RECURSIVE SelectGroup(_, _)
\* domain_groups[k]: the copies of the areas of key k, in input order.
SelectGroup(areas, k) ==
    IF areas = <<>> THEN <<>>
    ELSE IF domain_key(Head(areas)) = k
         THEN <<area_copy(Head(areas))>> \o SelectGroup(Tail(areas), k)
         ELSE SelectGroup(Tail(areas), k)

\* The pixels of the first area only.
total_pixels_first_area(domain_areas) == domain_areas[1].pixels

RECURSIVE total_pixels(_)
\* sum(area['pixels'] for area in domain_areas), line 149
total_pixels(domain_areas) ==
    IF domain_areas = <<>> THEN 0
    ELSE Head(domain_areas).pixels + total_pixels(Tail(domain_areas))

RECURSIVE InsertByPixels(_, _)
\* e put behind every entry whose total_pixels is not smaller (the sort is
\* stable).
InsertByPixels(es, e) ==
    IF es = <<>> THEN <<e>>
    ELSE IF e.total_pixels > Head(es).total_pixels THEN <<e>> \o es
    ELSE <<Head(es)>> \o InsertByPixels(Tail(es), e)

RECURSIVE SortByPixels(_, _)
\* processed_domains.sort(key=total_pixels, reverse=True), line 158
SortByPixels(done, rest) ==
    IF rest = <<>> THEN done
    ELSE SortByPixels(InsertByPixels(done, Head(rest)), Tail(rest))

\* _process_areas, lines 122-160
process_areas(areas) ==
    LET keys == GroupKeys(areas)
        entries == [j \in DOMAIN keys |->
                       [domain |-> keys[j],
                        total_pixels |-> total_pixels(SelectGroup(areas, keys[j])),
                        areas |-> SelectGroup(areas, keys[j])]]
    IN  SortByPixels(<<>>, entries)

AreaPool == [pixels : {100, 200}, url : Urls]

InitPixels ==
    /\ px_pc = "input"
    /\ px_areas \in UNION {[1..n -> AreaPool] : n \in 0..MaxAreas}
    /\ px_domains = NotYet
    /\ CliIdle
    /\ CategoriesIdle
    /\ ProgressIdle
    /\ SummaryIdle
    /\ UnitIdle
    /\ RcIdle
    /\ ResolverIdle

ProcessAreas ==
    /\ px_pc = "input"
    /\ px_domains' = process_areas(px_areas)
    /\ px_pc' = "done"
    /\ UNCHANGED <<px_areas, cli_vars, cat_vars, pg_vars, sm_vars, unit_vars, rc_vars,
                   res_vars>>

NextPixels == ProcessAreas

SpecPixels == InitPixels /\ [][NextPixels]_vars

\* The pixels of the areas of a list, added up.
PixelsOf(as) == SumOver([i \in DOMAIN as |-> as[i].pixels], DOMAIN as)

\* How often the area copy c occurs in the list as.
Occurrences(as, c) == Cardinality({i \in DOMAIN as : as[i] = c})

\* C26: _process_areas groups the areas by the domain extracted from their
\* URL: each area is in exactly one domain entry, each entry's total_pixels
\* is the sum of the pixels of its areas, so the totals add up to the pixels
\* of all areas, and the entries are in descending order of total_pixels.
C26_AreasGroupedByDomain ==
    px_pc = "done" =>
        /\ \A j \in DOMAIN px_domains :
               /\ px_domains[j].areas # <<>>
               /\ px_domains[j].total_pixels = PixelsOf(px_domains[j].areas)
        /\ \A i, j \in DOMAIN px_domains :
               i < j => /\ px_domains[i].domain # px_domains[j].domain
                        /\ px_domains[i].total_pixels >= px_domains[j].total_pixels
        /\ \A i \in DOMAIN px_areas :
               \A j \in DOMAIN px_domains :
                   LET here == Occurrences(px_domains[j].areas,
                                           area_copy(px_areas[i]))
                       given == Cardinality(
                                    {h \in DOMAIN px_areas :
                                        area_copy(px_areas[h]) = area_copy(px_areas[i])})
                   IN  IF px_domains[j].domain = domain_key(px_areas[i])
                       THEN here = given ELSE here = 0
        /\ \A j \in DOMAIN px_domains :
               \A a \in DOMAIN px_domains[j].areas :
                   \E i \in DOMAIN px_areas :
                       area_copy(px_areas[i]) = px_domains[j].areas[a]
        /\ PixelsOf([j \in DOMAIN px_domains |->
                        [pixels |-> px_domains[j].total_pixels]])
               = PixelsOf(px_areas)

\* Three areas, two of them of one domain written in two ways, gave two
\* entries, the one with 300 pixels in two areas first.
C26_Witness ==
    /\ px_pc = "done"
    /\ Len(px_areas) = 3
    /\ Len(px_domains) = 2
    /\ px_domains[1].total_pixels = 300
    /\ Len(px_domains[1].areas) = 2
    /\ px_domains[1].areas[1].url # px_domains[1].areas[2].url
    /\ px_domains[2].total_pixels = 200

\* The records the threaded run's result list holds for the k-th domain.
AppendsFor(k) ==
    Cardinality({i \in DOMAIN thr_results : thr_results[i].domain = domains[k]})

\* C27: in threaded mode no result is lost or read early: a record is
\* appended for a work unit only once it has finished, never twice; when
\* the run is over every work unit has contributed exactly one record; and
\* the list is sorted and returned only after every submitted work unit has
\* finished, whatever the order in which the workers finish.
C27_NoResultLostOrReadEarly ==
    /\ \A k \in 1..total_domains :
           /\ AppendsFor(k) <= 1
           /\ AppendsFor(k) = 1 => futures[k] = "finished"
    /\ ThrReturned => (AllFinished /\ IsSortedByDomain(thr_results))
    /\ ThrFinished => \A k \in 1..total_domains : AppendsFor(k) = 1

\* No work unit of the batch lets through an exception that the collecting
\* loop does not handle.
CollectHandlesAll ==
    \A k \in 1..total_domains :
        future_result(k).kind = "raise" =>
            IsAnyOf(future_result(k).exc, CollectCaught)

\* C27 for the batches in which the collecting loop handles every exception.
C27_NoResultLostWhenHandled ==
    CollectHandlesAll => C27_NoResultLostOrReadEarly

\* The three probes in the order analyze_domain calls them.
ProbeOrder == <<"check_dns_status", "check_http_status", "check_whois_status">>

\* So far the probes were called in order, each at most once.
CalledInOrder ==
    /\ Len(calls) <= Len(ProbeOrder)
    /\ calls = SubSeq(ProbeOrder, 1, Len(calls))

\* C28: one work unit invokes each of the three probes exactly once, in the
\* order DNS, HTTP, WHOIS, each after the one before has returned, and none
\* a second time.
C28_ThreeProbesOnceInOrder ==
    /\ CalledInOrder
    /\ unit_pc \in {"returned", "raised"} => calls = ProbeOrder

\* The part of C28 that holds for every work unit: the probes are called in
\* order, none twice, and a unit that builds its record has called all
\* three.
C28_InOrderAndNeverTwice ==
    /\ CalledInOrder
    /\ unit_pc = "returned" => calls = ProbeOrder

\* C29: in threaded mode the percentages of successive progress reports are
\* strictly increasing, every reported percentage other than the final one
\* is a multiple of 10, and for every non-empty domain set the last report
\* of the run is 100%, emitted exactly once, when the last work unit has
\* been collected.
C29_ThreadedReportsIncreaseTo100 ==
    /\ \A i, j \in DOMAIN thr_progress :
           i < j => thr_progress[i] < thr_progress[j]
    /\ \A i \in DOMAIN thr_progress :
           i < Len(thr_progress) => thr_progress[i] % 10 = 0
    /\ (\E i \in DOMAIN thr_progress : thr_progress[i] = 100) =>
           Len(collected) = total_domains
    /\ (ThrFinished /\ total_domains >= 1) =>
           /\ thr_progress # <<>>
           /\ thr_progress[Len(thr_progress)] = 100
           /\ Cardinality({i \in DOMAIN thr_progress : thr_progress[i] = 100}) = 1

\* C29 for the batches in which the collecting loop handles every exception.
C29_ThreadedReportsWhenHandled ==
    CollectHandlesAll => C29_ThreadedReportsIncreaseTo100

\* The same shape of the threaded log for every total up to MaxTotal, all
\* units being collected.
C29_ThreadedLogShape ==
    pg_mode = "threaded" =>
        /\ \A i, j \in DOMAIN pg_log :
               i < j => pg_log[i].percent < pg_log[j].percent
        /\ \A i \in DOMAIN pg_log :
               pg_log[i].percent # 100 => pg_log[i].percent % 10 = 0
        /\ pg_count = pg_total =>
               /\ pg_log # <<>>
               /\ pg_log[Len(pg_log)] = [unit |-> pg_total, percent |-> 100]
               /\ Cardinality({i \in DOMAIN pg_log : pg_log[i].percent = 100}) = 1

\* ---------------------------------------------------------------------
\* MarkdownReportGenerator._analyze_domains_by_status
\* (report_generator.py, lines 184-227)
\* ---------------------------------------------------------------------

\* The keys of categorized, lines 196-201
Categories == {"available", "registered", "nxdomain", "unknown"}

\* The probe statuses a domain record of the analysis can carry: one for
\* each branch of the chain and one for each pair of branches that compete.
RecordStatuses ==
    { [dns_status |-> "NXDOMAIN", whois_status |-> "available",
       http_status |-> 0],
      [dns_status |-> "NXDOMAIN", whois_status |-> "registered",
       http_status |-> 0],
      [dns_status |-> "NOERROR", whois_status |-> "registered",
       http_status |-> 200],
      [dns_status |-> "TIMEOUT", whois_status |-> "unknown",
       http_status |-> 200],
      [dns_status |-> "TIMEOUT", whois_status |-> "unknown",
       http_status |-> 0],
      [dns_status |-> "NOERROR", whois_status |-> "available",
       http_status |-> 200] }

\* The chain with its first two tests exchanged.
category_of_nxdomain_first(domain_info) ==
    IF domain_info.dns_status = "NXDOMAIN" THEN "nxdomain"
    ELSE IF domain_info.whois_status = "available" THEN "available"
    ELSE IF domain_info.whois_status = "registered"
            \/ domain_info.http_status > 0 THEN "registered"
    ELSE "unknown"

\* The if/elif chain of lines 214-221
category_of(domain_info) ==
    IF domain_info.whois_status = "available" THEN "available"
    ELSE IF domain_info.dns_status = "NXDOMAIN" THEN "nxdomain"
    ELSE IF domain_info.whois_status = "registered"
            \/ domain_info.http_status > 0 THEN "registered"
    ELSE "unknown"

\* domain_info.copy() with pixels = domain_pixels.get(domain, 0),
\* lines 210-211
with_pixels(domain_info, domain_pixels) ==
    [domain |-> domain_info.domain,
     dns_status |-> domain_info.dns_status,
     whois_status |-> domain_info.whois_status,
     http_status |-> domain_info.http_status,
     pixels |-> IF domain_info.domain \in DOMAIN domain_pixels
                THEN domain_pixels[domain_info.domain] ELSE 0]

RECURSIVE InsertByPixelCount(_, _)
\* One step of the stable descending sort: e goes before the first record
\* with strictly fewer pixels.
InsertByPixelCount(rs, e) ==
    IF rs = <<>> THEN <<e>>
    ELSE IF e.pixels > Head(rs).pixels THEN <<e>> \o rs
    ELSE <<Head(rs)>> \o InsertByPixelCount(Tail(rs), e)

RECURSIVE SortByPixelCount(_, _)
\* categorized[category].sort(key=pixels, reverse=True), lines 224-225
SortByPixelCount(done, rest) ==
    IF rest = <<>> THEN done
    ELSE SortByPixelCount(InsertByPixelCount(done, Head(rest)), Tail(rest))

\* _analyze_domains_by_status, lines 184-227
analyze_domains_by_status(domain_infos, domain_pixels) ==
    LET copies == [i \in DOMAIN domain_infos |->
                       with_pixels(domain_infos[i], domain_pixels)]
        appended(c) == SelectSeq(copies, LAMBDA r : category_of(r) = c)
    IN  [c \in Categories |-> SortByPixelCount(<<>>, appended(c))]

InitCategories ==
    /\ cat_pc = "input"
    /\ \E n \in 0..MaxDomains :
         /\ \E st \in [1..n -> RecordStatuses] :
              cat_domains = [i \in 1..n |->
                                [domain |-> NamePool[i],
                                 dns_status |-> st[i].dns_status,
                                 whois_status |-> st[i].whois_status,
                                 http_status |-> st[i].http_status]]
         /\ \E known \in SUBSET {NamePool[i] : i \in 1..n} :
              cat_pixels \in [known -> {100, 200}]
    /\ categorized = NotYet
    /\ CliIdle
    /\ PixelsIdle
    /\ ProgressIdle
    /\ SummaryIdle
    /\ UnitIdle
    /\ RcIdle
    /\ ResolverIdle

\* The report generator categorises the records of one analysis.
AnalyzeDomainsByStatus ==
    /\ cat_pc = "input"
    /\ categorized' = analyze_domains_by_status(cat_domains, cat_pixels)
    /\ cat_pc' = "done"
    /\ UNCHANGED <<cat_domains, cat_pixels, cli_vars, px_vars, pg_vars,
                   sm_vars, unit_vars, rc_vars, res_vars>>

NextCategories == AnalyzeDomainsByStatus

SpecCategories == InitCategories /\ [][NextCategories]_vars

\* The category the precedence of the report assigns to a record.
ExpectedCategory(r) ==
    CASE r.whois_status = "available" -> "available"
      [] r.whois_status # "available" /\ r.dns_status = "NXDOMAIN"
           -> "nxdomain"
      [] r.whois_status # "available" /\ r.dns_status # "NXDOMAIN"
           /\ (r.whois_status = "registered" \/ r.http_status > 0)
           -> "registered"
      [] OTHER -> "unknown"

\* The pixel count the map gives for a domain, 0 when it has none.
PixelCount(d) == IF d \in DOMAIN cat_pixels THEN cat_pixels[d] ELSE 0

\* The positions of the category c that hold the record of the domain d.
PlacesOf(c, d) == {j \in DOMAIN categorized[c] : categorized[c][j].domain = d}

\* C30: every domain record of the analysis is in exactly one of the four
\* categories, the one the precedence whois available, then DNS NXDOMAIN,
\* then whois registered or http_status > 0, else unknown gives it; the
\* sizes of the categories sum to the number of records, and each category
\* is in descending order of pixel count.
C30_OneCategoryPerRecord ==
    cat_pc = "done" =>
        /\ DOMAIN categorized = Categories
        /\ \A i \in DOMAIN cat_domains :
             LET r == cat_domains[i]
             IN  /\ Cardinality(PlacesOf(ExpectedCategory(r), r.domain)) = 1
                 /\ \A c \in Categories \ {ExpectedCategory(r)} :
                      PlacesOf(c, r.domain) = {}
                 /\ \A j \in PlacesOf(ExpectedCategory(r), r.domain) :
                      LET q == categorized[ExpectedCategory(r)][j]
                      IN  /\ q.dns_status = r.dns_status
                          /\ q.whois_status = r.whois_status
                          /\ q.http_status = r.http_status
                          /\ q.pixels = PixelCount(r.domain)
        /\ SumOver([c \in Categories |-> Len(categorized[c])], Categories)
               = Len(cat_domains)
        /\ \A c \in Categories :
             \A j, k \in DOMAIN categorized[c] :
                 j < k => categorized[c][j].pixels >= categorized[c][k].pixels

\* Three records have been categorised: one that is both whois available
\* and NXDOMAIN, and two of one category that the sort has exchanged.
C30_Witness ==
    /\ cat_pc = "done"
    /\ Len(cat_domains) = MaxDomains
    /\ \E i \in DOMAIN cat_domains :
         /\ cat_domains[i].whois_status = "available"
         /\ cat_domains[i].dns_status = "NXDOMAIN"
    /\ \E i, k \in DOMAIN cat_domains :
         /\ i < k
         /\ ExpectedCategory(cat_domains[i]) = ExpectedCategory(cat_domains[k])
         /\ PixelCount(cat_domains[i].domain)
              < PixelCount(cat_domains[k].domain)

====
